---- MODULE Spec2Model ----
(***************************************************************************)
(* The macOS launcher stub of sshpilot (packaging/macos/launcher.c).       *)
(*                                                                         *)
(* main() canonicalises argv[0], derives the bundle root and the           *)
(* resources/script paths in three fixed-size stack buffers, stats the     *)
(* script, changes directory and replaces the process image.               *)
(*                                                                         *)
(* A character is a one-character string, a C string is the sequence of    *)
(* its characters, a stack buffer is an array indexed from 0 whose bytes   *)
(* are characters, NUL or indeterminate.  The outcome of an OS call is     *)
(* decided by the state of the filesystem at the moment of the call; the   *)
(* filesystem belongs to the environment, which may change it between two  *)
(* steps of main.                                                          *)
(***************************************************************************)
EXTENDS Integers, Sequences, FiniteSets, TLC

VARIABLES
    pc,               \* position of main: the step it is about to take
    target,           \* canonical path argv[0] denotes (environment input)
    fs,               \* filesystem: path -> kind of the entry found there
    changes,          \* number of filesystem changes made by the environment
    executable_path,  \* char *executable_path (its string, or NullPtr)
    heap,             \* state of the buffer realpath allocates
    frees,            \* number of free(executable_path) calls made
    app_path,         \* char app_path[1024]
    resources_path,   \* char resources_path[1024]
    script_path,      \* char script_path[1024]
    contents_pos,     \* char *contents_pos, as an offset into app_path
    top,              \* highest index written so far in each buffer
    st,               \* struct stat st: the kind stat reported
    cwd,              \* working directory of the process
    image,            \* program and argv that replaced the process image
    err,              \* what was written to stderr, one entry per fprintf
    exit_status,      \* value returned by main
    calls             \* OS calls made so far, in order

vars == <<pc, target, fs, changes, executable_path, heap, frees, app_path,
          resources_path, script_path, contents_pos, top, st, cwd, image,
          err, exit_status, calls>>

---------------------------------------------------------------------------
(* Bounds of the model *)

\* filesystem changes the environment makes during one run
MaxFsChanges == 1

---------------------------------------------------------------------------
(* Constants of the program *)

BufSize == 1024

NUL == "NUL"
UNINIT == "?"

MARKER == <<"/", "C", "o", "n", "t", "e", "n", "t", "s", "/">>

RES_SUFFIX ==
    <<"/", "C", "o", "n", "t", "e", "n", "t", "s",
      "/", "R", "e", "s", "o", "u", "r", "c", "e", "s">>

SCRIPT_SUFFIX ==
    <<"/", "C", "o", "n", "t", "e", "n", "t", "s",
      "/", "R", "e", "s", "o", "u", "r", "c", "e", "s",
      "/", "l", "a", "u", "n", "c", "h", "e", "r", ".", "s", "h">>

MSG_RESOLVE == "Error: Could not resolve executable path\n"
MSG_SCRIPT == "Error: Launcher script not found at %s\n"
MSG_CHDIR == "Error: Could not change to resources directory\n"
MSG_EXEC == "Error: Failed to execute launcher script\n"

\* a null char * (no C string contains NUL)
NullPtr == <<NUL>>
\* a null pointer into app_path
NullPos == 0 - 1
\* main has not returned
NoExit == 0 - 1
\* the working directory main starts in
InitialCwd == <<"/">>
\* the process image has not been replaced
NoImage == [path |-> <<>>, argv |-> <<>>]

---------------------------------------------------------------------------
(* libc *)

Min(a, b) == IF a <= b THEN a ELSE b

MinOf(S) == CHOOSE x \in S : \A y \in S : x <= y

FreshBuf == [i \in 0..(BufSize - 1) |-> UNINIT]

\* strlen: offset of the first NUL of the buffer.  A buffer without any NUL
\* is read to its end (the read past it is undefined; the program never
\* builds such a buffer).
StrLen(buf) ==
    LET nuls == {i \in DOMAIN buf : buf[i] = NUL}
    IN  IF nuls = {} THEN BufSize ELSE MinOf(nuls)

\* the C string a buffer holds
CStr(buf) == [i \in 1..StrLen(buf) |-> buf[i - 1]]

\* (mutant) sprintf: the whole output is stored, whatever the size
SnprintfLen_Unbounded(size, out) == Len(out)

\* number of characters snprintf stores before the terminating NUL
SnprintfLen(size, out) == Min(Len(out), size - 1)

\* snprintf(buf, size, ...) where the formatted output is out
Snprintf(buf, size, out) ==
    LET n == SnprintfLen(size, out)
    IN  [i \in DOMAIN buf |->
            IF i < n THEN out[i + 1] ELSE IF i = n THEN NUL ELSE buf[i]]

\* the output of the format "%s<suffix>"
Format(arg, suffix) == arg \o suffix

\* (mutant) the search returns the last occurrence, as a reverse scan does
Strstr_Last(hay, needle) ==
    LET Hits(h) == {i \in 0..(Len(h) - Len(needle)) :
                       SubSeq(h, i + 1, i + Len(needle)) = needle}
        Last(S) == IF S = {} THEN NullPos
                   ELSE CHOOSE i \in S : \A j \in S : j <= i
    IN  CHOOSE r \in {Last(Hits(h)) : h \in {hay}} : TRUE

\* strstr: offset of the first occurrence of needle in hay, or NullPos
\* (h binds the haystack once, the scan does not rebuild it per offset)
Strstr(hay, needle) ==
    LET Hits(h) == {i \in 0..(Len(h) - Len(needle)) :
                       SubSeq(h, i + 1, i + Len(needle)) = needle}
        First(S) == IF S = {} THEN NullPos ELSE MinOf(S)
    IN  CHOOSE r \in {First(Hits(h)) : h \in {hay}} : TRUE

---------------------------------------------------------------------------
(* The filesystem and the OS calls *)

Kinds == {"none", "file", "xfile", "dir"}

\* q lies below p: q is p followed by "/" and possibly more
Under(p, q) ==
    /\ Len(q) > Len(p)
    /\ q[Len(p) + 1] = "/"
    /\ SubSeq(q, 1, Len(p)) = p

\* an entry exists only below directories, and a path that ends in "/"
\* names a directory or nothing
WellFormed(f) ==
    /\ \A p \in DOMAIN f : \A q \in DOMAIN f :
          (f[q] # "none" /\ f[p] # "dir") => ~Under(p, q)
    /\ \A q \in DOMAIN f :
          q[Len(q)] = "/" => f[q] \in {"none", "dir"}

KindOf(p) == IF p \in DOMAIN fs THEN fs[p] ELSE "none"

\* realpath(argv[0], NULL): the canonical path, or NULL
Realpath == IF KindOf(target) # "none" THEN target ELSE NullPtr

\* (mutant) the validator asks for an executable file, as access(p, X_OK)
StatOk_Executable(p) == KindOf(p) = "xfile"

\* stat(p, &st) == 0
StatOk(p) == KindOf(p) # "none"

\* chdir(p) == 0
ChdirOk(p) == KindOf(p) = "dir"

\* execl(p, p, NULL) replaces the image (does not return)
ExecOk(p) == KindOf(p) = "xfile"

---------------------------------------------------------------------------
(* Inputs *)

Pad(n) == [i \in 1..n |-> "a"]

\* a path of n characters without the marker
Plain(n) == <<"/">> \o Pad(n - 1)

MACOS_TAIL ==
    <<"/", "C", "o", "n", "t", "e", "n", "t", "s",
      "/", "M", "a", "c", "O", "S",
      "/", "l", "a", "u", "n", "c", "h", "e", "r">>

\* lengths of the root at which a derived string just fits its buffer
FitScript == BufSize - 1 - Len(SCRIPT_SUFFIX)
FitRes == BufSize - 1 - Len(RES_SUFFIX)
FitMarker == BufSize - 1 - Len(MARKER)
FitAll == BufSize - 1

\* a critical length and the first length past it
Around(t) == {t, t + 1}

NestedRoot == <<"/", "a">> \o MARKER \o <<"b">>

BundleRoots ==
    {Plain(2), NestedRoot}
        \cup {Plain(n) : n \in Around(FitScript) \cup Around(FitRes)
                                \cup Around(FitMarker)}

PlainTargets ==
    {<<"/", "b", "/", "l">>}
        \cup {Plain(n) : n \in Around(FitScript) \cup Around(FitRes)
                                \cup Around(FitAll)}

Targets == {x \o MACOS_TAIL : x \in BundleRoots} \cup PlainTargets

Trunc(s) == SubSeq(s, 1, Min(Len(s), BufSize - 1))

\* offsets at which the marker occurs in t
MarkerAt(t) ==
    {j \in 0..(Len(t) - Len(MARKER)) :
        SubSeq(t, j + 1, j + Len(MARKER)) = MARKER}

\* the candidate bundle roots of t: every prefix of t that ends right before
\* an occurrence of the marker; t itself, as far as a buffer holds it, when
\* that part holds no marker
RootsOf(t) ==
    {SubSeq(t, 1, j) : j \in MarkerAt(t)}
        \cup (IF MarkerAt(Trunc(t)) = {} THEN {Trunc(t)} ELSE {})

\* the paths whose entries matter to a run on t
Universe(t) ==
    {t} \cup UNION {{r \o RES_SUFFIX, r \o SCRIPT_SUFFIX,
                     Trunc(r \o RES_SUFFIX), Trunc(r \o SCRIPT_SUFFIX)} :
                        r \in RootsOf(t)}

\* what argv[0] names when main starts: nothing, the executable, or, for a
\* path outside any bundle layout, a directory
StartKinds(t) ==
    IF MarkerAt(t) = {} THEN {"none", "xfile", "dir"} ELSE {"none", "xfile"}

---------------------------------------------------------------------------
(* main *)

Init ==
    /\ pc = "Resolve"
    /\ target \in Targets
    /\ LET start == StartKinds(target)
       IN  fs \in {f \in [Universe(target) -> Kinds] :
                       f[target] \in start /\ WellFormed(f)}
    /\ changes = 0
    /\ executable_path = NullPtr
    /\ heap = "none"
    /\ frees = 0
    /\ app_path = FreshBuf
    /\ resources_path = FreshBuf
    /\ script_path = FreshBuf
    /\ contents_pos = NullPos
    /\ top = [app |-> NullPos, res |-> NullPos, scr |-> NullPos]
    /\ st = "unset"
    /\ cwd = InitialCwd
    /\ image = NoImage
    /\ err = <<>>
    /\ exit_status = NoExit
    /\ calls = <<>>

Call(op, ok) == [op |-> op, ok |-> ok]

\* fprintf(stderr, fmt, args...)
Report(fmt, args) == err' = Append(err, [fmt |-> fmt, args |-> args])

\* free(executable_path)
Release ==
    /\ heap' = "freed"
    /\ frees' = frees + 1

\* (mutant) return 0
Return1_Zero ==
    /\ exit_status' = 0
    /\ pc' = "Failed"

\* return 1
Return1 ==
    /\ exit_status' = 1
    /\ pc' = "Failed"

\* lines 14-18, realpath succeeds
ResolveOk ==
    /\ pc = "Resolve"
    /\ Realpath # NullPtr
    /\ executable_path' = Realpath
    /\ heap' = "live"
    /\ calls' = Append(calls, Call("realpath", TRUE))
    /\ pc' = "Derive"
    /\ UNCHANGED <<target, fs, changes, frees, app_path, resources_path,
                   script_path, contents_pos, top, st, cwd, image, err,
                   exit_status>>

\* lines 14-18, realpath fails
ResolveFail ==
    /\ pc = "Resolve"
    /\ Realpath = NullPtr
    /\ executable_path' = NullPtr
    /\ calls' = Append(calls, Call("realpath", FALSE))
    /\ Report(MSG_RESOLVE, <<>>)
    /\ Return1
    /\ UNCHANGED <<target, fs, changes, heap, frees, app_path,
                   resources_path, script_path, contents_pos, top, st, cwd,
                   image>>

\* (mutant) without a marker the bundle root is the directory of the
\* executable: app_path is cut at its last "/"
AppCut_Dirname ==
    LET a == Snprintf(app_path, BufSize, Format(executable_path, <<>>))
        m == Strstr(CStr(a), MARKER)
        slashes == {i \in 0..(StrLen(a) - 1) : a[i] = "/"}
    IN  IF m # NullPos THEN [a EXCEPT ![m] = NUL]
        ELSE IF slashes # {}
            THEN [a EXCEPT ![CHOOSE i \in slashes : \A j \in slashes : j <= i] = NUL]
            ELSE a

\* lines 21-25: app_path after the copy and the cut at the marker
AppCopied == Snprintf(app_path, BufSize, Format(executable_path, <<>>))

MarkerPos == Strstr(CStr(AppCopied), MARKER)

AppCut ==
    IF MarkerPos # NullPos
        THEN [AppCopied EXCEPT ![MarkerPos] = NUL]
        ELSE AppCopied

\* (mutant) the suffixes are appended before the cut: resources_path and
\* script_path are formatted from the copied path, marker and all
Derive_Uncut ==
    /\ pc = "Derive"
    /\ \E a \in {AppCut} : \E whole \in {CStr(AppCopied)} :
          /\ app_path' = a
          /\ resources_path' =
                 Snprintf(resources_path, BufSize, Format(whole, RES_SUFFIX))
          /\ script_path' =
                 Snprintf(script_path, BufSize, Format(whole, SCRIPT_SUFFIX))
          /\ top' =
                 [app |-> SnprintfLen(BufSize, Format(executable_path, <<>>)),
                  res |-> SnprintfLen(BufSize, Format(whole, RES_SUFFIX)),
                  scr |-> SnprintfLen(BufSize, Format(whole, SCRIPT_SUFFIX))]
    /\ contents_pos' = MarkerPos
    /\ pc' = "Validate"
    /\ UNCHANGED <<target, fs, changes, executable_path, heap, frees, st,
                   cwd, image, err, exit_status, calls>>

\* (mutant) the script is looked for in the bundle root: the format of
\* script_path is "%s/launcher.sh"
Derive_ScriptInRoot ==
    /\ pc = "Derive"
    /\ \E a \in {AppCut} : \E root \in {CStr(a)} :
          \E name \in {SubSeq(SCRIPT_SUFFIX, Len(RES_SUFFIX) + 1,
                               Len(SCRIPT_SUFFIX))} :
          /\ app_path' = a
          /\ resources_path' =
                 Snprintf(resources_path, BufSize, Format(root, RES_SUFFIX))
          /\ script_path' =
                 Snprintf(script_path, BufSize, Format(root, name))
          /\ top' =
                 [app |-> SnprintfLen(BufSize, Format(executable_path, <<>>)),
                  res |-> SnprintfLen(BufSize, Format(root, RES_SUFFIX)),
                  scr |-> SnprintfLen(BufSize, Format(root, name))]
    /\ contents_pos' = MarkerPos
    /\ pc' = "Validate"
    /\ UNCHANGED <<target, fs, changes, executable_path, heap, frees, st,
                   cwd, image, err, exit_status, calls>>

\* lines 21-28
Derive ==
    /\ pc = "Derive"
    /\ \E a \in {AppCut} : \E root \in {CStr(a)} :
          /\ app_path' = a
          /\ resources_path' =
                 Snprintf(resources_path, BufSize, Format(root, RES_SUFFIX))
          /\ script_path' =
                 Snprintf(script_path, BufSize, Format(root, SCRIPT_SUFFIX))
          /\ top' =
                 [app |-> SnprintfLen(BufSize, Format(executable_path, <<>>)),
                  res |-> SnprintfLen(BufSize, Format(root, RES_SUFFIX)),
                  scr |-> SnprintfLen(BufSize, Format(root, SCRIPT_SUFFIX))]
    /\ contents_pos' = MarkerPos
    /\ pc' = "Validate"
    /\ UNCHANGED <<target, fs, changes, executable_path, heap, frees, st,
                   cwd, image, err, exit_status, calls>>

\* lines 31-36, stat succeeds
ValidateOk ==
    /\ pc = "Validate"
    /\ StatOk(CStr(script_path))
    /\ st' = KindOf(CStr(script_path))
    /\ calls' = Append(calls, Call("stat", TRUE))
    /\ pc' = "Chdir"
    /\ UNCHANGED <<target, fs, changes, executable_path, heap, frees,
                   app_path, resources_path, script_path, contents_pos, top,
                   cwd, image, err, exit_status>>

\* (mutant) the diagnostic names the resources directory
ValidateFail_WrongPath ==
    /\ pc = "Validate"
    /\ ~StatOk(CStr(script_path))
    /\ calls' = Append(calls, Call("stat", FALSE))
    /\ Report(MSG_SCRIPT, <<CStr(resources_path)>>)
    /\ Release
    /\ Return1
    /\ UNCHANGED <<target, fs, changes, executable_path, app_path,
                   resources_path, script_path, contents_pos, top, st, cwd,
                   image>>

\* (mutant) main waits for the script to appear: a failing stat is repeated
ValidateFail_Poll ==
    /\ pc = "Validate"
    /\ ~StatOk(CStr(script_path))
    /\ UNCHANGED vars

\* lines 31-36, stat fails
ValidateFail ==
    /\ pc = "Validate"
    /\ ~StatOk(CStr(script_path))
    /\ calls' = Append(calls, Call("stat", FALSE))
    /\ Report(MSG_SCRIPT, <<CStr(script_path)>>)
    /\ Release
    /\ Return1
    /\ UNCHANGED <<target, fs, changes, executable_path, app_path,
                   resources_path, script_path, contents_pos, top, st, cwd,
                   image>>

\* (mutant) the directory is taken from script_path as dirname does, in
\* place: script_path is cut at its last "/"
ChdirOkStep_Dirname ==
    /\ pc = "Chdir"
    /\ ChdirOk(CStr(resources_path))
    /\ \E n \in {StrLen(script_path)} :
          \E cut \in {i \in 0..(n - 1) :
                         /\ script_path[i] = "/"
                         /\ \A j \in (i + 1)..(n - 1) : script_path[j] # "/"} :
             script_path' = [script_path EXCEPT ![cut] = NUL]
    /\ cwd' = CStr(resources_path)
    /\ calls' = Append(calls, Call("chdir", TRUE))
    /\ pc' = "Exec"
    /\ UNCHANGED <<target, fs, changes, executable_path, heap, frees,
                   app_path, resources_path, contents_pos, top, st, image,
                   err, exit_status>>

\* lines 39-43, chdir succeeds
ChdirOkStep ==
    /\ pc = "Chdir"
    /\ ChdirOk(CStr(resources_path))
    /\ cwd' = CStr(resources_path)
    /\ calls' = Append(calls, Call("chdir", TRUE))
    /\ pc' = "Exec"
    /\ UNCHANGED <<target, fs, changes, executable_path, heap, frees,
                   app_path, resources_path, script_path, contents_pos, top,
                   st, image, err, exit_status>>

\* (mutant) the chdir failure exit without free
ChdirFail_NoFree ==
    /\ pc = "Chdir"
    /\ ~ChdirOk(CStr(resources_path))
    /\ calls' = Append(calls, Call("chdir", FALSE))
    /\ Report(MSG_CHDIR, <<>>)
    /\ Return1
    /\ UNCHANGED <<target, fs, changes, executable_path, heap, frees,
                   app_path, resources_path, script_path, contents_pos, top,
                   st, cwd, image>>

\* (mutant) the chdir failure is reported but main goes on to execl
ChdirFail_FallThrough ==
    /\ pc = "Chdir"
    /\ ~ChdirOk(CStr(resources_path))
    /\ calls' = Append(calls, Call("chdir", FALSE))
    /\ Report(MSG_CHDIR, <<>>)
    /\ pc' = "Exec"
    /\ UNCHANGED <<target, fs, changes, executable_path, heap, frees,
                   app_path, resources_path, script_path, contents_pos, top,
                   st, cwd, image, exit_status>>

\* lines 39-43, chdir fails
ChdirFail ==
    /\ pc = "Chdir"
    /\ ~ChdirOk(CStr(resources_path))
    /\ calls' = Append(calls, Call("chdir", FALSE))
    /\ Report(MSG_CHDIR, <<>>)
    /\ Release
    /\ Return1
    /\ UNCHANGED <<target, fs, changes, executable_path, app_path,
                   resources_path, script_path, contents_pos, top, st, cwd,
                   image>>

\* (mutant) the launcher's own path is passed as argument zero
ExecOkStep_OwnArgv0 ==
    /\ pc = "Exec"
    /\ ExecOk(CStr(script_path))
    /\ image' = [path |-> CStr(script_path), argv |-> <<executable_path>>]
    /\ calls' = Append(calls, Call("execl", TRUE))
    /\ heap' = "discarded"
    /\ pc' = "Terminated"
    /\ UNCHANGED <<target, fs, changes, executable_path, frees, app_path,
                   resources_path, script_path, contents_pos, top, st, cwd,
                   err, exit_status>>

\* line 46, execl does not return: the image is replaced and the memory of
\* the old image, the realpath buffer included, is gone
ExecOkStep ==
    /\ pc = "Exec"
    /\ ExecOk(CStr(script_path))
    /\ image' = [path |-> CStr(script_path), argv |-> <<CStr(script_path)>>]
    /\ calls' = Append(calls, Call("execl", TRUE))
    /\ heap' = "discarded"
    /\ pc' = "Terminated"
    /\ UNCHANGED <<target, fs, changes, executable_path, frees, app_path,
                   resources_path, script_path, contents_pos, top, st, cwd,
                   err, exit_status>>

\* (mutant) the exec failure exit reports the chdir diagnostic
ExecFail_WrongMsg ==
    /\ pc = "Exec"
    /\ ~ExecOk(CStr(script_path))
    /\ calls' = Append(calls, Call("execl", FALSE))
    /\ Report(MSG_CHDIR, <<>>)
    /\ Release
    /\ Return1
    /\ UNCHANGED <<target, fs, changes, executable_path, app_path,
                   resources_path, script_path, contents_pos, top, st, cwd,
                   image>>

\* (mutant) a returning execl is tried again
ExecFail_Retry ==
    /\ pc = "Exec"
    /\ ~ExecOk(CStr(script_path))
    /\ Len(calls) < 6
    /\ calls' = Append(calls, Call("execl", FALSE))
    /\ pc' = "Exec"
    /\ UNCHANGED <<target, fs, changes, executable_path, heap, frees,
                   app_path, resources_path, script_path, contents_pos, top,
                   st, cwd, image, err, exit_status>>

\* lines 46-51, execl returns
ExecFail ==
    /\ pc = "Exec"
    /\ ~ExecOk(CStr(script_path))
    /\ calls' = Append(calls, Call("execl", FALSE))
    /\ Report(MSG_EXEC, <<>>)
    /\ Release
    /\ Return1
    /\ UNCHANGED <<target, fs, changes, executable_path, app_path,
                   resources_path, script_path, contents_pos, top, st, cwd,
                   image>>

\* the filesystem after the entry at p became of kind k: what lay below a
\* directory that is removed, renamed away or replaced goes with it
Replaced(f, p, k) ==
    [q \in DOMAIN f |->
        IF q = p THEN k
        ELSE IF f[q] # "none" /\ k # "dir" /\ Under(p, q) THEN "none"
        ELSE f[q]]

\* the environment changes one entry of the filesystem between two OS calls
\* of main (a change before realpath returns is another initial filesystem,
\* and the path derivation reads no entry)
FsChange ==
    /\ pc \in {"Validate", "Chdir", "Exec"}
    /\ changes < MaxFsChanges
    /\ \E p \in DOMAIN fs : \E k \in Kinds \ {fs[p]} :
          /\ WellFormed(Replaced(fs, p, k))
          /\ fs' = Replaced(fs, p, k)
    /\ changes' = changes + 1
    /\ UNCHANGED <<pc, target, executable_path, heap, frees, app_path,
                   resources_path, script_path, contents_pos, top, st, cwd,
                   image, err, exit_status, calls>>

Next ==
    \/ ResolveOk
    \/ ResolveFail
    \/ Derive
    \/ ValidateOk
    \/ ValidateFail
    \/ ChdirOkStep
    \/ ChdirFail
    \/ ExecOkStep
    \/ ExecFail
    \/ FsChange

\* the steps of main itself
Main ==
    \/ ResolveOk
    \/ ResolveFail
    \/ Derive
    \/ ValidateOk
    \/ ValidateFail
    \/ ChdirOkStep
    \/ ChdirFail
    \/ ExecOkStep
    \/ ExecFail

Spec == Init /\ [][Next]_vars

\* main is one sequential control path and every OS call it makes returns:
\* a step of main that can be taken is taken
FairSpec == Spec /\ WF_vars(Main)

---------------------------------------------------------------------------
(* Observations used by the properties *)

Terminal == pc \in {"Failed", "Terminated"}

Ops == [i \in 1..Len(calls) |-> calls[i].op]

Called(op) == \E i \in 1..Len(calls) : calls[i].op = op

Succeeded(op) == \E i \in 1..Len(calls) : calls[i].op = op /\ calls[i].ok

FailedAt(op) == \E i \in 1..Len(calls) : calls[i].op = op /\ ~calls[i].ok

---------------------------------------------------------------------------
(* Properties *)

\* C1: on every run that does not end in process-image replacement the
\* buffer realpath allocated is released exactly once before main returns:
\* never leaked, never freed twice, and free is never called when realpath
\* returned NULL; this holds at the script-not-found, chdir and exec exits.
C1_ReleasedExactlyOnce ==
    /\ frees <= 1
    /\ FailedAt("realpath") => (frees = 0 /\ heap = "none")
    /\ (pc = "Failed" /\ Succeeded("realpath")) =>
            (frees = 1 /\ heap = "freed")
    /\ \A op \in {"stat", "chdir", "execl"} :
            FailedAt(op) => (frees = 1 /\ heap = "freed")
    /\ ~Terminal => (frees = 0 /\ heap \in {"none", "live"})

C1_Witness ==
    /\ pc = "Failed"
    /\ FailedAt("chdir")
    /\ frees = 1

\* C2: each of the four failures (realpath, stat, chdir, execl) makes main
\* return 1 after exactly one diagnostic was written to stderr; main never
\* returns 0 and no failure exits without a diagnostic.
C2_ExitOneWithOneDiagnostic ==
    /\ exit_status \in {NoExit, 1}
    /\ \A op \in {"realpath", "stat", "chdir", "execl"} :
            FailedAt(op) => (pc = "Failed" /\ exit_status = 1 /\ Len(err) = 1)
    /\ pc = "Failed" <=> exit_status = 1
    /\ pc = "Failed" => Len(err) = 1
    /\ pc # "Failed" => (err = <<>> /\ exit_status = NoExit)

C2_Witness ==
    /\ pc = "Failed"
    /\ FailedAt("realpath")
    /\ exit_status = 1
    /\ Len(err) = 1

\* C4: whenever stat(script_path) fails the process exits with status 1, the
\* diagnostic carries the full derived script path, neither chdir nor execl
\* is called and the working directory is unchanged.
C4_MissingScript ==
    FailedAt("stat") =>
        /\ pc = "Failed"
        /\ exit_status = 1
        /\ err = <<[fmt |-> MSG_SCRIPT, args |-> <<CStr(script_path)>>]>>
        /\ CStr(script_path) = Trunc(CStr(app_path) \o SCRIPT_SUFFIX)
        /\ ~Called("chdir")
        /\ ~Called("execl")
        /\ cwd = InitialCwd
        /\ image = NoImage

C4_Witness ==
    /\ FailedAt("stat")
    /\ pc = "Failed"
    /\ err[1].args = <<CStr(app_path) \o SCRIPT_SUFFIX>>
    /\ contents_pos # NullPos

\* C5: whenever stat(script_path) succeeded and chdir(resources_path) fails
\* (also when the directory went away between the two calls) the process
\* exits with status 1 with the chdir diagnostic, execl is never called and
\* the working directory is unchanged.
C5_ChdirFailure ==
    FailedAt("chdir") =>
        /\ Succeeded("stat")
        /\ pc = "Failed"
        /\ exit_status = 1
        /\ err = <<[fmt |-> MSG_CHDIR, args |-> <<>>]>>
        /\ MSG_CHDIR \notin {MSG_RESOLVE, MSG_SCRIPT, MSG_EXEC}
        /\ ~Called("execl")
        /\ cwd = InitialCwd
        /\ image = NoImage

\* the resources directory held the script when stat ran and is gone when
\* chdir runs
C5_Witness ==
    /\ FailedAt("chdir")
    /\ pc = "Failed"
    /\ CStr(script_path) = CStr(resources_path) \o <<"/", "l", "a", "u", "n", "c", "h", "e", "r", ".", "s", "h">>
    /\ KindOf(CStr(resources_path)) = "none"
    /\ changes > 0

\* the canonical path has the layout X/Contents/MacOS/launcher
IsBundled(e) ==
    /\ e # NullPtr
    /\ Len(e) > Len(MACOS_TAIL)
    /\ SubSeq(e, Len(e) - Len(MACOS_TAIL) + 1, Len(e)) = MACOS_TAIL

\* the X of X/Contents/MacOS/launcher
BundleOf(e) == SubSeq(e, 1, Len(e) - Len(MACOS_TAIL))

\* X/Contents/Resources/launcher.sh is an executable file and
\* X/Contents/Resources a directory, now
HappyTree ==
    /\ IsBundled(executable_path)
    /\ KindOf(BundleOf(executable_path) \o SCRIPT_SUFFIX) = "xfile"
    /\ KindOf(BundleOf(executable_path) \o RES_SUFFIX) = "dir"

\* what the happy path asks of the step main takes next
HappyStep ==
    LET X == BundleOf(executable_path)
    IN  /\ pc = "Validate" => pc' = "Chdir"
        /\ pc = "Chdir" => (pc' = "Exec" /\ cwd' = X \o RES_SUFFIX)
        /\ pc = "Exec" =>
              /\ pc' = "Terminated"
              /\ cwd' = X \o RES_SUFFIX
              /\ image' = [path |-> X \o SCRIPT_SUFFIX,
                           argv |-> <<X \o SCRIPT_SUFFIX>>]
              /\ [i \in 1..Len(calls') |-> calls'[i].op] =
                     <<"realpath", "stat", "chdir", "execl">>

\* C3 as stated: for every X, when the canonical path is
\* X/Contents/MacOS/launcher and the script and resources directory of X are
\* in place, main goes on to chdir into X/Contents/Resources and then to
\* replace the image with X/Contents/Resources/launcher.sh, argument zero
\* that same path and nothing more.
C3_HappyPath_AsStated ==
    [][(HappyTree /\ pc' # pc) => HappyStep]_vars

\* C3, amended: the same, for an X in which "/Contents/" does not occur
\* before the one that ends it and whose script path fits the buffer
\* (X of at most 992 characters).
C3_HappyPath ==
    [][(/\ HappyTree
        /\ Strstr(executable_path, MARKER) = Len(BundleOf(executable_path))
        /\ Len(BundleOf(executable_path)) <= FitScript
        /\ pc' # pc) => HappyStep]_vars

C3_Witness ==
    /\ pc = "Terminated"
    /\ IsBundled(executable_path)
    /\ Len(BundleOf(executable_path)) = FitScript
    /\ cwd = BundleOf(executable_path) \o RES_SUFFIX
    /\ image.path = BundleOf(executable_path) \o SCRIPT_SUFFIX
    /\ image.argv = <<image.path>>

\* the canonical path holds no marker
NoMarker(e) == e # NullPtr /\ Strstr(e, MARKER) = NullPos

\* the three paths have been constructed
Derived == Succeeded("realpath") /\ pc # "Derive"

\* C6 as stated: when the canonical path holds no "/Contents/", app_path is
\* that path unmodified, resources_path and script_path are that path with
\* the suffixes appended, and validation never passes: the run ends in the
\* script-not-found failure with status 1.
C6_MarkerAbsent_AsStated ==
    (NoMarker(executable_path) /\ Derived) =>
        /\ CStr(app_path) = executable_path
        /\ CStr(resources_path) = executable_path \o RES_SUFFIX
        /\ CStr(script_path) = executable_path \o SCRIPT_SUFFIX
        /\ ~Succeeded("stat")
        /\ Terminal =>
              /\ pc = "Failed"
              /\ exit_status = 1
              /\ err = <<[fmt |-> MSG_SCRIPT, args |-> <<CStr(script_path)>>]>>

\* the paths of the amended C6
C6_Paths ==
    (NoMarker(executable_path) /\ Derived) =>
        /\ Len(executable_path) <= FitAll =>
              CStr(app_path) = executable_path
        /\ Len(executable_path) <= FitRes =>
              CStr(resources_path) = executable_path \o RES_SUFFIX
        /\ Len(executable_path) <= FitScript =>
              CStr(script_path) = executable_path \o SCRIPT_SUFFIX
        /\ contents_pos = NullPos

\* the run of the amended C6
C6_Run ==
    (/\ pc = "Validate"
     /\ pc' # pc
     /\ NoMarker(executable_path)
     /\ Len(executable_path) < FitAll
     /\ KindOf(executable_path) # "dir") =>
        /\ pc' = "Failed"
        /\ exit_status' = 1
        /\ err' = <<[fmt |-> MSG_SCRIPT, args |-> <<CStr(script_path)>>]>>
        /\ calls' = <<Call("realpath", TRUE), Call("stat", FALSE)>>

\* C6, amended: when the canonical path holds no "/Contents/", app_path is
\* that path if it has at most 1023 characters, resources_path is it with
\* "/Contents/Resources" appended if it has at most 1004, script_path is it
\* with "/Contents/Resources/launcher.sh" appended if it has at most 992; and
\* if the path has fewer than 1023 characters and does not name a directory
\* when the script is stat'ed, the run ends in the script-not-found failure
\* with status 1, chdir and execl never reached.
C6_MarkerAbsent == []C6_Paths /\ [][C6_Run]_vars

C6_Witness ==
    /\ pc = "Failed"
    /\ NoMarker(executable_path)
    /\ CStr(script_path) = executable_path \o SCRIPT_SUFFIX
    /\ calls = <<Call("realpath", TRUE), Call("stat", FALSE)>>
    /\ KindOf(executable_path) = "xfile"

\* C7 as stated: when script_path can be stat'ed but is no runnable program,
\* the validator passes, chdir is performed, execl is attempted once and
\* returns, and the process exits with status 1 with the exec diagnostic
\* after releasing executable_path.
C7_NotRunnable_AsStated ==
    (/\ Terminal
     /\ Succeeded("stat")
     /\ st \in {"file", "dir"}
     /\ KindOf(CStr(script_path)) = st) =>
        /\ pc = "Failed"
        /\ Succeeded("chdir")
        /\ FailedAt("execl")
        /\ err = <<[fmt |-> MSG_EXEC, args |-> <<>>]>>
        /\ exit_status = 1
        /\ frees = 1

\* C7, amended: the validator fails only when there is no entry at
\* script_path; when stat succeeded, chdir(resources_path) succeeded and the
\* entry at script_path is no runnable program when execl is called, execl
\* is attempted exactly once and returns, and the process then exits with
\* status 1 with the exec diagnostic (distinct from the script-not-found and
\* chdir diagnostics) after releasing executable_path.
C7_NotRunnable ==
    /\ FailedAt("stat") => KindOf(CStr(script_path)) = "none"
    /\ Succeeded("stat") => st \in {"file", "xfile", "dir"}
    /\ (/\ Terminal
        /\ Succeeded("stat")
        /\ Succeeded("chdir")
        /\ KindOf(CStr(script_path)) # "xfile") =>
            /\ pc = "Failed"
            /\ Ops = <<"realpath", "stat", "chdir", "execl">>
            /\ ~calls[4].ok
            /\ err = <<[fmt |-> MSG_EXEC, args |-> <<>>]>>
            /\ MSG_EXEC \notin {MSG_RESOLVE, MSG_SCRIPT, MSG_CHDIR}
            /\ exit_status = 1
            /\ frees = 1
            /\ heap = "freed"
            /\ image = NoImage

C7_Witness ==
    /\ pc = "Failed"
    /\ st = "file"
    /\ KindOf(CStr(script_path)) = "file"
    /\ FailedAt("execl")
    /\ err = <<[fmt |-> MSG_EXEC, args |-> <<>>]>>
    /\ frees = 1

\* C8: for every length of the canonical path the construction of app_path,
\* resources_path and script_path writes no index >= 1024 of a buffer, each
\* buffer is NUL-terminated after its construction, the NUL written at the
\* marker lies inside app_path, and over-long results are cut to at most
\* 1023 characters.
C8_NoOverflow ==
    /\ \A b \in {"app", "res", "scr"} : top[b] < BufSize
    /\ Derived =>
          LET app == CStr(app_path)
          IN  /\ top.app = Min(Len(executable_path), BufSize - 1)
              /\ app_path[top.app] = NUL
              /\ resources_path[top.res] = NUL
              /\ script_path[top.scr] = NUL
              /\ StrLen(resources_path) = top.res
              /\ StrLen(script_path) = top.scr
              /\ Len(app) <= BufSize - 1
              /\ top.res = Min(Len(app) + Len(RES_SUFFIX), BufSize - 1)
              /\ top.scr = Min(Len(app) + Len(SCRIPT_SUFFIX), BufSize - 1)
              /\ CStr(resources_path) = Trunc(app \o RES_SUFFIX)
              /\ CStr(script_path) = Trunc(app \o SCRIPT_SUFFIX)
              /\ contents_pos # NullPos =>
                    /\ contents_pos \in 0..(top.app - 1)
                    /\ app_path[contents_pos] = NUL
                    /\ Len(app) = contents_pos

C8_Witness ==
    /\ pc = "Validate"
    /\ Len(executable_path) >= BufSize
    /\ contents_pos # NullPos
    /\ top.res = BufSize - 1
    /\ Len(CStr(script_path)) = BufSize - 1
    /\ Len(CStr(app_path) \o RES_SUFFIX) > BufSize - 1

\* the path the failing call was given
Offending(op) ==
    IF op = "realpath" THEN target
    ELSE IF op = "chdir" THEN CStr(resources_path)
    ELSE CStr(script_path)

\* C9 as stated: each of the four failures is reported with a diagnostic
\* that includes the offending path, the owned buffer is then released and
\* the process exits non-zero.
C9_Diagnostics_AsStated ==
    \A op \in {"realpath", "stat", "chdir", "execl"} :
        FailedAt(op) =>
            /\ pc = "Failed"
            /\ Len(err) = 1
            /\ err[1].args = <<Offending(op)>>
            /\ exit_status \notin {NoExit, 0}

\* the diagnostic of each failing call
DiagnosticOf(op) ==
    IF op = "realpath" THEN [fmt |-> MSG_RESOLVE, args |-> <<>>]
    ELSE IF op = "stat" THEN [fmt |-> MSG_SCRIPT, args |-> <<CStr(script_path)>>]
    ELSE IF op = "chdir" THEN [fmt |-> MSG_CHDIR, args |-> <<>>]
    ELSE [fmt |-> MSG_EXEC, args |-> <<>>]

\* C9, amended: each of the four failures is reported at the failing call
\* with a diagnostic of its own; only the script-not-found diagnostic
\* includes a path (script_path), the resolution, chdir and exec diagnostics
\* are fixed texts; the buffer is released when realpath had succeeded
\* (there is none to release otherwise) and the process exits with status 1.
C9_Diagnostics ==
    /\ \A op \in {"realpath", "stat", "chdir", "execl"} :
          FailedAt(op) =>
              /\ pc = "Failed"
              /\ calls[Len(calls)] = Call(op, FALSE)
              /\ err = <<DiagnosticOf(op)>>
              /\ heap = IF op = "realpath" THEN "none" ELSE "freed"
              /\ exit_status = 1
    /\ pc = "Failed" => ~calls[Len(calls)].ok
    /\ Cardinality({MSG_RESOLVE, MSG_SCRIPT, MSG_CHDIR, MSG_EXEC}) = 4

C9_Witness ==
    /\ pc = "Failed"
    /\ FailedAt("execl")
    /\ err = <<[fmt |-> MSG_EXEC, args |-> <<>>]>>
    /\ heap = "freed"

Sequence == <<"realpath", "stat", "chdir", "execl">>

Rank(p) ==
    CASE p = "Resolve" -> 0
      [] p = "Derive" -> 1
      [] p = "Validate" -> 2
      [] p = "Chdir" -> 3
      [] p = "Exec" -> 4
      [] OTHER -> 5

\* the calls made so far are the first calls of the sequence, each once,
\* and all but the last succeeded
C10_Order ==
    /\ Len(calls) <= Len(Sequence)
    /\ Ops = SubSeq(Sequence, 1, Len(calls))
    /\ \A i \in 1..(Len(calls) - 1) : calls[i].ok
    /\ (calls # <<>> /\ ~calls[Len(calls)].ok) => pc = "Failed"

\* a step of main goes forward and leaves no terminal state
C10_Forward ==
    /\ ~Terminal
    /\ Rank(pc') >= Rank(pc)
    /\ calls' # calls => (Rank(pc') > Rank(pc) /\ Len(calls') = Len(calls) + 1)
    /\ pc' # pc => Rank(pc') > Rank(pc)

\* C10: in every run the OS calls happen in the order realpath, stat, chdir,
\* execl, each at most once and each only after the one before succeeded;
\* after a failure no later call is made, no earlier step is re-entered, and
\* Failed and Terminated have no outgoing transitions.
C10_FixedOrder == []C10_Order /\ [][C10_Forward]_vars

C10_Witness ==
    /\ pc = "Terminated"
    /\ Ops = Sequence
    /\ \A i \in 1..4 : calls[i].ok

\* C11: provided every OS call returns, every run eventually reaches one
\* of the two terminal states, Terminated (image replaced) or Failed
\* (diagnostic written, exit status 1); no run stops in between and no run
\* reaches both.
C11_Terminates ==
    /\ <>Terminal
    /\ [](pc = "Failed" => (Len(err) = 1 /\ exit_status = 1 /\ image = NoImage))
    /\ [](pc = "Terminated" => (image # NoImage /\ exit_status = NoExit))
    /\ [][Terminal => pc' = pc]_vars

C11_Witness ==
    /\ pc = "Terminated"
    /\ changes > 0
    /\ image # NoImage
    /\ exit_status = NoExit

\* C12 as stated: whenever realpath succeeded, after the derivation
\* resources_path is the bundle root held in app_path followed by
\* "/Contents/Resources" and script_path is that root followed by
\* "/Contents/Resources/launcher.sh", whatever the length of the root.
C12_DerivedPaths_AsStated ==
    Derived =>
        LET root == CStr(app_path)
        IN  /\ CStr(resources_path) = root \o RES_SUFFIX
            /\ CStr(script_path) = root \o SCRIPT_SUFFIX

\* C12: whenever realpath succeeded, after the derivation resources_path
\* holds the first 1023 characters of the root in app_path followed by
\* "/Contents/Resources", and script_path the first 1023 characters of that
\* root followed by "/Contents/Resources/launcher.sh": the whole string when
\* the root has at most 1004, respectively 992, characters.
C12_DerivedPaths ==
    Derived =>
        LET root == CStr(app_path)
            res == CStr(resources_path)
            scr == CStr(script_path)
        IN  /\ res = Trunc(root \o RES_SUFFIX)
            /\ scr = Trunc(root \o SCRIPT_SUFFIX)
            /\ Len(root) <= FitRes => res = root \o RES_SUFFIX
            /\ Len(root) <= FitScript => scr = root \o SCRIPT_SUFFIX

\* a bundle root one character too long for script_path, cut at the marker
C12_Witness ==
    /\ pc = "Validate"
    /\ contents_pos = FitScript + 1
    /\ top.scr = BufSize - 1
    /\ top.res = FitScript + 1 + Len(RES_SUFFIX)

\* "/launcher.sh": what the format of script_path adds to that of
\* resources_path
SCRIPT_NAME == SubSeq(SCRIPT_SUFFIX, Len(RES_SUFFIX) + 1, Len(SCRIPT_SUFFIX))

\* stat, chdir or execl is about to be called
AtCall == pc \in {"Validate", "Chdir", "Exec"}

\* C13 as stated: whenever stat, chdir or execl is called, script_path is
\* resources_path followed by "/launcher.sh", so the two are never the same
\* string.
C13_ScriptInResources_AsStated ==
    AtCall =>
        LET res == CStr(resources_path)
            scr == CStr(script_path)
        IN  /\ scr = res \o SCRIPT_NAME
            /\ scr # res

\* whenever stat, chdir or execl is called, script_path holds the first 1023
\* characters of resources_path followed by "/launcher.sh": all of it when
\* the bundle root has at most 992 characters, and nothing but
\* resources_path itself when resources_path fills its buffer
C13_Paths ==
    AtCall =>
        LET root == CStr(app_path)
            res == CStr(resources_path)
            scr == CStr(script_path)
        IN  /\ scr = Trunc(res \o SCRIPT_NAME)
            /\ Len(root) <= FitScript => (scr = res \o SCRIPT_NAME /\ scr # res)
            /\ Len(res) = BufSize - 1 => scr = res

\* from the call of stat on neither string changes, and execl is given the
\* string of script_path as the program and as argument zero
C13_SameScript ==
    AtCall =>
        /\ script_path' = script_path
        /\ resources_path' = resources_path
        /\ pc' = "Terminated" =>
              /\ image'.path = CStr(script_path)
              /\ image'.argv = <<CStr(script_path)>>

\* C13: whenever stat, chdir or execl is called, script_path is the first
\* 1023 characters of resources_path followed by "/launcher.sh" (the whole
\* of it for bundle roots of at most 992 characters, the same string as
\* resources_path for roots of 1004 characters or more), and the path passed
\* to stat is the string later passed to execl as program and argument zero.
C13_ScriptInResources == []C13_Paths /\ [][C13_SameScript]_vars

\* chdir succeeded on a resources_path that is also the script_path
C13_Witness ==
    /\ pc = "Exec"
    /\ Succeeded("chdir")
    /\ top.res = BufSize - 1
    /\ CStr(script_path) = CStr(resources_path)

\* the canonical path holds the marker
HasMarker(e) == e # NullPtr /\ MarkerAt(e) # {}

\* the part of e before its leftmost marker
BeforeFirstMarker(e) == SubSeq(e, 1, MinOf(MarkerAt(e)))

\* C14 as stated: when the canonical path holds "/Contents/" once or more,
\* the bundle root is the prefix of the path that ends right before the
\* leftmost occurrence, so the root never holds "/Contents/"; for
\* A/Contents/B/Contents/MacOS/launcher it is A.
C14_FirstMarker_AsStated ==
    (Derived /\ HasMarker(executable_path)) =>
        LET root == CStr(app_path)
        IN  /\ root = BeforeFirstMarker(executable_path)
            /\ MarkerAt(root) = {}

\* C14: when the first 1023 characters of the canonical path hold
\* "/Contents/" once or more, the bundle root is the prefix of the path that
\* ends right before the leftmost occurrence; when the path holds the marker
\* only further on, the root is the first 1023 characters of the path. The
\* root never holds "/Contents/", and for
\* A/Contents/B/Contents/MacOS/launcher it is A.
C14_FirstMarker ==
    (Derived /\ HasMarker(executable_path)) =>
        LET root == CStr(app_path)
            kept == Trunc(executable_path)
        IN  /\ MarkerAt(kept) # {} =>
                  /\ root = BeforeFirstMarker(executable_path)
                  /\ contents_pos = Len(root)
            /\ MarkerAt(kept) = {} =>
                  /\ root = kept
                  /\ contents_pos = NullPos
            /\ MarkerAt(root) = {}
            /\ executable_path = NestedRoot \o MACOS_TAIL =>
                  root = <<"/", "a">>

\* the nested layout, cut at the first of its two markers
C14_Witness ==
    /\ pc = "Validate"
    /\ executable_path = NestedRoot \o MACOS_TAIL
    /\ Cardinality(MarkerAt(executable_path)) = 2
    /\ contents_pos = 2

\* resources_path or script_path has been read: by stat, chdir or execl, or
\* by the diagnostic that prints script_path
PathsRead ==
    \/ Called("stat") \/ Called("chdir") \/ Called("execl")
    \/ \E i \in 1..Len(err) : err[i].args # <<>>
    \/ cwd # InitialCwd
    \/ image # NoImage

\* the derived buffers are read, or about to be, only after realpath
\* succeeded and the derivation is done; a run in which realpath failed
\* leaves the three buffers as they were and ends at once
C15_Reads ==
    /\ (AtCall \/ PathsRead) => Derived
    /\ FailedAt("realpath") =>
          /\ calls = <<Call("realpath", FALSE)>>
          /\ app_path = FreshBuf
          /\ resources_path = FreshBuf
          /\ script_path = FreshBuf
          /\ ~PathsRead

\* after the derivation no step changes one of the four paths, and main
\* takes no step once the realpath buffer is released or discarded
C15_Frame ==
    Derived =>
        /\ executable_path' = executable_path
        /\ app_path' = app_path
        /\ resources_path' = resources_path
        /\ script_path' = script_path
        /\ contents_pos' = contents_pos
        /\ heap # "live" => pc' = pc

\* C15: once the derivation is done none of executable_path, app_path,
\* resources_path and script_path is modified by a later step (the Validate,
\* Chdir and Exec steps and every failure exit leave all four unchanged),
\* and resources_path and script_path are read only in runs where realpath
\* succeeded.
C15_WriteOnce == []C15_Reads /\ [][C15_Frame]_vars

\* a run that went through every step and every read, ending at the exec
\* failure exit with the four paths still in place
C15_Witness ==
    /\ pc = "Failed"
    /\ FailedAt("execl")
    /\ heap = "freed"
    /\ executable_path # NullPtr
    /\ top.scr > top.res
    /\ script_path[top.scr] = NUL

====
